---- MODULE Spec2Model ----
(***************************************************************************)
(* Verification model of the MetaVision FoundationPose live client         *)
(* (src/MTFPL_client_gui.py): the ClientApp workflow state machine run by  *)
(* the Qt UI thread, the control REQ socket, the RealSenseThread sender    *)
(* loop with its PUSH socket, and the ResultReceiver loop whose results    *)
(* reach the UI thread as queued signals.                                  *)
(***************************************************************************)
EXTENDS Integers, Sequences, FiniteSets, TLC

VARIABLES
    app,            \* the ClientApp object's fields, the enabled state of its buttons,
                    \* thread.tracking_active and the state of cmd_socket
    ui_stack,       \* the UI thread's call stack: where each running handler blocks or pumps
    cmd_wire,       \* control requests sent and not yet answered or timed out
    mask_request,   \* the payload of the SET_MASK request on the control channel
    s_pc,           \* RealSenseThread.run: position inside the loop body
    frame_no,       \* RealSenseThread.run: number of frame sets pulled so far
    video_queue,    \* the PUSH socket's outbound queue (frame numbers)
    send_outcome,   \* RealSenseThread.run: how the last send_pyobj ended
    captured,       \* the frame sets that held both a color and a depth frame, in order
    sent_log,       \* the frames whose packet the PUSH socket has accepted, in order
    shown,          \* the frames emitted as change_pixmap_signal, in order
    n_packets,      \* ResultReceiver.run: number of packets received so far
    result_queue,   \* new_result signals emitted and not yet delivered to the UI thread
    r_pc,           \* ResultReceiver.run: inside the loop ("recv") or returned ("done")
    now,            \* the last value time.time() returned to the UI thread (0.1 s ticks)
    connect,        \* __main__ and its ManualConnectDialog: how far the start-up has come
    life,           \* thread._run_flag, result_receiver.running, the video socket and
                    \* the connection_error_signal of the sender thread
    arrivals,       \* the times of the results delivered since tracking was last started
    proj,           \* update_image.project: the arguments of a call and what it returned
    export          \* save_log_file: the pose_log it is called with and the file it wrote

vars == <<app, ui_stack, cmd_wire, mask_request, s_pc, frame_no, video_queue, send_outcome, captured, sent_log, shown,
         n_packets, result_queue, r_pc, now, connect, life, arrivals, proj, export>>

uiVars       == <<app, ui_stack, cmd_wire, mask_request, arrivals>>
senderVars   == <<s_pc, frame_no, video_queue, send_outcome, captured, sent_log, shown>>
receiverVars == <<n_packets, result_queue, r_pc>>
pureVars     == <<proj, export>>
outerVars    == <<connect, life, pureVars>>

----------------------------------------------------------------------------
(* Bounds of the model *)

MaxFrames  == 2      \* frame sets the camera delivers
MaxResults == 2      \* packets the server pushes
MaxNest    == 1      \* texture handlers that may pump events at the same time
MaxTime    == 12     \* latest clock reading, in ticks
MaxProbes  == 2      \* times the user presses the connect button with an address typed in
MaxLog     == 2      \* entries of the pose_log handed to an export
MaxArrivals == 4     \* results delivered between two starts of tracking

(* Program constants *)

SNDHWM      == 1     \* video_socket.setsockopt(zmq.SNDHWM, 1)
WindowTicks == 10    \* the 1.0 s of "now - 1.0", in ticks of 0.1 s

(* Inputs *)

ClickPixels  == {<<1, 1>>, <<2, 3>>}
ArrivalGaps  == {0, 6}
RateGaps     == {0, 3, 6, 10, 11}
PacketFields == {{"box_points", "pose", "timestamp"}, {"box_points", "pose"},
                 {"box_points", "timestamp"}, {"pose", "timestamp"}}
\* What arrives on the PULL socket: a pickled dict with these keys, or bytes that
\* recv_pyobj cannot unpickle.
Received     == {[decodes |-> TRUE, fields |-> F] : F \in PacketFields}
                    \cup {[decodes |-> FALSE, fields |-> {}]}
TypedIps     == {"", "10.0.0.5", "10.0.0.6"}
ProbeReplies == {"PONG", "ERROR"}
TextureLists == {<<>>, <<"wood">>}
SetTextureReplies == {"OK", "NO MESH", "ERROR"}

\* How recv_pyobj() of GET_TEXTURES ends: zmq.Again at the timeout, a reply
\* whose status is not OK, or an OK reply with a list
TextureListOutcomes ==
    {[kind |-> "Again", status |-> "", textures |-> <<>>],
     [kind |-> "reply", status |-> "ERROR", textures |-> <<>>]}
    \cup {[kind |-> "reply", status |-> "OK", textures |-> t] : t \in TextureLists}

None == <<>>

\* No call of project and no export of the log is being looked at.
NoProjection == [phase |-> "none"]
NoExport == [phase |-> "none"]
Some(x) == <<x>>

CameraK == "K"       \* the intrinsics matrix of the active color stream

PumpFrames == {"tex_pump1", "tex_pump2"}
RecvFrames == {"stop_recv", "cad_recv", "mask_recv", "tex_list_recv", "tex_full_recv", "tex_set_recv"}

----------------------------------------------------------------------------
(* ManualConnectDialog and __main__ *)

ProbeOutcomes ==
    {[kind |-> "reply", text |-> r] : r \in ProbeReplies}
        \cup {[kind |-> k, text |-> ""] : k \in {"Again", "ConnectError", "RecvError"}}

\* ManualConnectDialog.__init__, before dialog.exec() has returned
InitConnect ==
    [ phase      |-> "dialog",
      entered_ip |-> None,
      accepted   |-> FALSE,
      probes     |-> 0,
      pings      |-> 0,
      last       |-> [kind |-> "none", text |-> ""] ]

\* The start-up behind a session in progress: one probe, answered and accepted.
Connected ==
    [ phase      |-> "session",
      entered_ip |-> Some("10.0.0.5"),
      accepted   |-> TRUE,
      probes     |-> 1,
      pings      |-> 1,
      last       |-> [kind |-> "reply", text |-> "PONG"] ]

verify_connection_accept_timeout(d, ip, outcome) ==
    IF ip = "" THEN d
    ELSE LET d1 == [d EXCEPT !.probes = @ + 1,
                             !.pings = IF outcome.kind = "ConnectError" THEN @ ELSE @ + 1,
                             !.last = outcome]
         IN  IF outcome.kind \in {"reply", "Again"}
             THEN [d1 EXCEPT !.entered_ip = Some(ip), !.accepted = TRUE]
             ELSE d1

\* verify_connection with `ip` typed in.  `outcome` is the reply recv_string
\* returns, zmq.Again, an exception of connect (no PING went out) or one of recv.
verify_connection(d, ip, outcome) ==
    IF ip = "" THEN d
    ELSE LET d1 == [d EXCEPT !.probes = @ + 1,
                             !.pings = IF outcome.kind = "ConnectError" THEN @ ELSE @ + 1,
                             !.last = outcome]
         IN  IF outcome.kind = "reply"
             THEN [d1 EXCEPT !.entered_ip = Some(ip), !.accepted = TRUE]
             ELSE d1

\* btn_connect.clicked -> verify_connection
ConnectClick ==
    /\ connect.phase = "dialog"
    /\ ~connect.accepted
    /\ connect.probes < MaxProbes
    /\ \E ip \in TypedIps, outcome \in ProbeOutcomes :
         connect' = verify_connection(connect, ip, outcome)
    /\ UNCHANGED <<pureVars, uiVars, senderVars, receiverVars, now, life>>

\* The user closes the dialog: dialog.exec() returns 0 and __main__ exits.
DialogClose ==
    /\ connect.phase = "dialog"
    /\ ~connect.accepted
    /\ connect' = [connect EXCEPT !.phase = "exited"]
    /\ UNCHANGED <<pureVars, uiVars, senderVars, receiverVars, now, life>>

\* dialog.exec() returns after accept(): window = ClientApp(dialog.entered_ip)
MainStart ==
    /\ connect.phase = "dialog"
    /\ connect.accepted
    /\ connect' = [connect EXCEPT !.phase = "session"]
    /\ UNCHANGED <<pureVars, uiVars, senderVars, receiverVars, now, life>>

NextConnect ==
    \/ ConnectClick
    \/ DialogClose
    \/ MainStart

----------------------------------------------------------------------------
(* ClientApp.__init__ *)

InitApp ==
    [ current_box_points  |-> None,
      current_pose        |-> None,
      tracking_fps_buffer |-> <<>>,
      tracking_fps        |-> 0,
      pose_log            |-> <<>>,
      image_counter       |-> 0,
      texture_cache       |-> None,
      cmd_state           |-> "ready",
      status_cad          |-> FALSE,
      status_appearance   |-> FALSE,
      status_mask         |-> FALSE,
      drawing_mode        |-> FALSE,
      mask_points         |-> <<>>,
      btn_cad             |-> TRUE,
      btn_color           |-> TRUE,
      btn_texture         |-> TRUE,
      btn_mask            |-> TRUE,
      btn_start           |-> FALSE,
      btn_log             |-> FALSE,
      tracking_active     |-> FALSE ]

InitSession ==
    /\ app = InitApp
    /\ ui_stack = <<>>
    /\ cmd_wire = <<>>
    /\ mask_request = None
    /\ arrivals = <<>>
    /\ s_pc = "wait"
    /\ frame_no = 0
    /\ video_queue = <<>>
    /\ send_outcome = "none"
    /\ captured = <<>> /\ sent_log = <<>> /\ shown = <<>>
    /\ n_packets = 0
    /\ result_queue = <<>>
    /\ r_pc = "recv"
    /\ now = 0
    /\ life = [run_flag |-> TRUE, running |-> TRUE, video_socket |-> "open", error |-> "none"]

\* A session whose start-up is over
Init ==
    /\ InitSession
    /\ connect = Connected
    /\ proj = NoProjection
    /\ export = NoExport

\* The program at its start, with the connection dialog open
InitDialog ==
    /\ InitSession
    /\ connect = InitConnect
    /\ proj = NoProjection
    /\ export = NoExport

----------------------------------------------------------------------------
(* The UI thread's call stack *)

Top(stack) == IF stack = <<>> THEN "idle" ELSE stack[Len(stack)]
Pop(stack) == SubSeq(stack, 1, Len(stack) - 1)
Push(stack, f) == Append(stack, f)

\* The event loop of the session dispatches an event when no handler runs, or when
\* the running handler is inside QApplication.processEvents().
Dispatch == connect.phase = "session" /\ Top(ui_stack) \in {"idle"} \cup PumpFrames

PumpDepth(stack) == Cardinality({i \in 1..Len(stack) : stack[i] \in PumpFrames})

\* The payload of {"cmd": "SET_MASK", "points": self.mask_points, "K": K}
SetMaskRequest(a) == [points |-> a.mask_points, K |-> CameraK]

\* One step of the UI thread: the object's new fields, the new call stack and the
\* request put on the control channel ("" for none).
UIStep(a, stack, req) ==
    /\ app' = a
    /\ ui_stack' = stack
    /\ cmd_wire' = IF req = "" THEN cmd_wire ELSE Append(cmd_wire, req)
    /\ mask_request' = IF req = "SET_MASK" THEN Some(SetMaskRequest(a)) ELSE mask_request
    /\ arrivals' = IF a.tracking_active /\ ~app.tracking_active THEN <<>> ELSE arrivals
    /\ UNCHANGED <<outerVars, senderVars, receiverVars, now>>

----------------------------------------------------------------------------
(* ClientApp.check_ready_status *)

check_ready_status_no_mask(a) ==
    IF a.tracking_active THEN a
    ELSE [a EXCEPT !.btn_start = a.status_cad /\ a.status_appearance]

check_ready_status(a) ==
    IF a.tracking_active THEN a
    ELSE [a EXCEPT !.btn_start = a.status_cad /\ a.status_appearance /\ a.status_mask]

(* ClientApp.toggle_tracking, up to the STOP exchange *)

toggle_tracking_keep_log(a) ==
    LET a0 == [a EXCEPT !.current_box_points = None, !.current_pose = None]
    IN  IF ~a.tracking_active
        THEN [a0 EXCEPT !.tracking_fps_buffer = <<>>,
                        !.tracking_fps = 0,
                        !.btn_log = FALSE,
                        !.tracking_active = TRUE,
                        !.btn_cad = FALSE, !.btn_mask = FALSE,
                        !.btn_color = FALSE, !.btn_texture = FALSE]
        ELSE check_ready_status(
             [a0 EXCEPT !.tracking_active = FALSE,
                        !.tracking_fps = 0,
                        !.btn_cad = TRUE, !.btn_mask = TRUE,
                        !.btn_color = TRUE, !.btn_texture = TRUE,
                        !.btn_log = TRUE,
                        !.status_mask = FALSE,
                        !.mask_points = <<>>])

toggle_tracking_keep_mask(a) ==
    LET a0 == [a EXCEPT !.current_box_points = None, !.current_pose = None]
    IN  IF ~a.tracking_active
        THEN [a0 EXCEPT !.pose_log = <<>>,
                        !.image_counter = 0,
                        !.tracking_fps_buffer = <<>>,
                        !.tracking_fps = 0,
                        !.btn_log = FALSE,
                        !.tracking_active = TRUE,
                        !.btn_cad = FALSE, !.btn_mask = FALSE,
                        !.btn_color = FALSE, !.btn_texture = FALSE]
        ELSE check_ready_status(
             [a0 EXCEPT !.tracking_active = FALSE,
                        !.tracking_fps = 0,
                        !.btn_cad = TRUE, !.btn_mask = TRUE,
                        !.btn_color = TRUE, !.btn_texture = TRUE,
                        !.btn_log = TRUE])

toggle_tracking_keep_counter(a) ==
    LET a0 == [a EXCEPT !.current_box_points = None, !.current_pose = None]
    IN  IF ~a.tracking_active
        THEN [a0 EXCEPT !.pose_log = <<>>,
                        !.tracking_fps_buffer = <<>>,
                        !.tracking_fps = 0,
                        !.btn_log = FALSE,
                        !.tracking_active = TRUE,
                        !.btn_cad = FALSE, !.btn_mask = FALSE,
                        !.btn_color = FALSE, !.btn_texture = FALSE]
        ELSE check_ready_status(
             [a0 EXCEPT !.tracking_active = FALSE,
                        !.tracking_fps = 0,
                        !.btn_cad = TRUE, !.btn_mask = TRUE,
                        !.btn_color = TRUE, !.btn_texture = TRUE,
                        !.btn_log = TRUE,
                        !.status_mask = FALSE,
                        !.mask_points = <<>>])

toggle_tracking_keep_overlay(a) ==
    IF ~a.tracking_active
    THEN [a EXCEPT !.pose_log = <<>>,
                   !.image_counter = 0,
                   !.tracking_fps_buffer = <<>>,
                   !.tracking_fps = 0,
                   !.btn_log = FALSE,
                   !.tracking_active = TRUE,
                   !.btn_cad = FALSE, !.btn_mask = FALSE,
                   !.btn_color = FALSE, !.btn_texture = FALSE]
    ELSE check_ready_status(
         [a EXCEPT !.current_box_points = None, !.current_pose = None,
                   !.tracking_active = FALSE,
                   !.tracking_fps = 0,
                   !.btn_cad = TRUE, !.btn_mask = TRUE,
                   !.btn_color = TRUE, !.btn_texture = TRUE,
                   !.btn_log = TRUE,
                   !.status_mask = FALSE,
                   !.mask_points = <<>>])

toggle_tracking(a) ==
    LET a0 == [a EXCEPT !.current_box_points = None, !.current_pose = None]
    IN  IF ~a.tracking_active
        THEN [a0 EXCEPT !.pose_log = <<>>,
                        !.image_counter = 0,
                        !.tracking_fps_buffer = <<>>,
                        !.tracking_fps = 0,
                        !.btn_log = FALSE,
                        !.tracking_active = TRUE,
                        !.btn_cad = FALSE, !.btn_mask = FALSE,
                        !.btn_color = FALSE, !.btn_texture = FALSE]
        ELSE check_ready_status(
             [a0 EXCEPT !.tracking_active = FALSE,
                        !.tracking_fps = 0,
                        !.btn_cad = TRUE, !.btn_mask = TRUE,
                        !.btn_color = TRUE, !.btn_texture = TRUE,
                        !.btn_log = TRUE,
                        !.status_mask = FALSE,
                        !.mask_points = <<>>])

(* ClientApp.start_drawing_mode, after the call of toggle_tracking *)

enter_drawing_no_check(a) ==
    [a EXCEPT !.current_box_points = None,
              !.drawing_mode = TRUE,
              !.mask_points = <<>>,
              !.status_mask = FALSE]

enter_drawing_keep_points(a) ==
    check_ready_status(
        [a EXCEPT !.current_box_points = None,
                  !.drawing_mode = TRUE,
                  !.status_mask = FALSE])

enter_drawing_keep_ready(a) ==
    check_ready_status(
        [a EXCEPT !.current_box_points = None,
                  !.drawing_mode = TRUE,
                  !.mask_points = <<>>])

enter_drawing(a) ==
    check_ready_status(
        [a EXCEPT !.current_box_points = None,
                  !.drawing_mode = TRUE,
                  !.mask_points = <<>>,
                  !.status_mask = FALSE])

----------------------------------------------------------------------------
(* cmd_socket: a zmq.REQ socket.  send is legal only when no reply is awaited;
   a recv that times out (zmq.Again) leaves the socket awaiting. *)

CanSend(a) == a.cmd_state = "ready"
Sent(a)    == [a EXCEPT !.cmd_state = "awaiting"]
Replied(a) == [a EXCEPT !.cmd_state = "ready"]

Exchange_async(a, stack, req, frame) == UIStep(Sent(a), stack, req)

\* send_pyobj(req) followed by a blocking recv at `frame`; when send raises, the
\* handler's except clause ends the exchange and the handler goes on as `a`, `stack`.
Exchange(a, stack, req, frame) ==
    IF CanSend(a) THEN UIStep(Sent(a), Push(stack, frame), req)
                  ELSE UIStep(a, stack, "")

----------------------------------------------------------------------------
(* The user's actions and the handlers they run *)

\* btn_start.clicked -> toggle_tracking; a disabled button emits no signal.
ClickStart ==
    /\ Dispatch
    /\ IF ~app.btn_start THEN UNCHANGED vars
       ELSE IF ~app.tracking_active
            THEN UIStep(toggle_tracking(app), ui_stack, "")
            ELSE Exchange(toggle_tracking(app), ui_stack, "STOP", "stop_recv")

\* cmd_socket.recv_string() of the STOP exchange returns or times out.
StopRecv ==
    /\ Top(ui_stack) = "stop_recv"
    /\ UNCHANGED <<mask_request, arrivals>>
    /\ cmd_wire' = Tail(cmd_wire)
    /\ \E ok \in BOOLEAN :
         LET a == IF ok THEN Replied(app) ELSE app
             stack == Pop(ui_stack)
         IN  IF Top(stack) = "draw_cont"
             THEN app' = enter_drawing(a) /\ ui_stack' = Pop(stack)
             ELSE app' = a /\ ui_stack' = stack
    /\ UNCHANGED <<outerVars, senderVars, receiverVars, now>>

\* btn_mask.clicked -> start_drawing_mode
start_drawing_mode ==
    /\ Dispatch
    /\ app.btn_mask
    /\ IF app.tracking_active
       THEN LET a == toggle_tracking(app)
            IN  IF CanSend(a)
                THEN UIStep(Sent(a), Push(Push(ui_stack, "draw_cont"), "stop_recv"), "STOP")
                ELSE UIStep(enter_drawing(a), ui_stack, "")
       ELSE UIStep(enter_drawing(app), ui_stack, "")

\* image_label.on_click -> handle_image_click(x, y)
handle_image_click ==
    /\ Dispatch
    /\ \E p \in ClickPixels :
         IF ~app.drawing_mode THEN UNCHANGED vars
         ELSE LET a == [app EXCEPT !.mask_points = Append(@, p)]
              IN  IF Len(a.mask_points) = 1 THEN UIStep(a, ui_stack, "")
                  ELSE IF Len(a.mask_points) = 2
                       THEN Exchange([a EXCEPT !.drawing_mode = FALSE], ui_stack,
                                     "SET_MASK", "mask_recv")
                       ELSE UIStep(a, ui_stack, "")

MaskRecvOf(replied) ==
    /\ Top(ui_stack) = "mask_recv"
    /\ cmd_wire' = Tail(cmd_wire)
    /\ mask_request' = None
    /\ UNCHANGED arrivals
    /\ ui_stack' = Pop(ui_stack)
    /\ app' = IF replied THEN check_ready_status([Replied(app) EXCEPT !.status_mask = TRUE])
                         ELSE app
    /\ UNCHANGED <<outerVars, senderVars, receiverVars, now>>

MaskRecv == \E replied \in BOOLEAN : MaskRecvOf(replied)

\* btn_cad.clicked -> upload_cad: the file dialog is cancelled, the file cannot be
\* read, or the file is sent.
upload_cad ==
    /\ Dispatch
    /\ app.btn_cad
    /\ \E choice \in {"cancel", "unreadable", "file"} :
         IF choice = "file"
         THEN Exchange(app, ui_stack, "UPLOAD_CAD", "cad_recv")
         ELSE UIStep(app, ui_stack, "")

CadRecvOf(replied) ==
    /\ Top(ui_stack) = "cad_recv"
    /\ UNCHANGED <<mask_request, arrivals>>
    /\ cmd_wire' = Tail(cmd_wire)
    /\ ui_stack' = Pop(ui_stack)
    /\ app' = IF replied THEN check_ready_status([Replied(app) EXCEPT !.status_cad = TRUE])
                         ELSE app
    /\ UNCHANGED <<outerVars, senderVars, receiverVars, now>>

CadRecv == \E replied \in BOOLEAN : CadRecvOf(replied)

\* btn_color.clicked -> pick_color
pick_color ==
    /\ Dispatch
    /\ app.btn_color
    /\ \E valid \in BOOLEAN :
         IF valid
         THEN UIStep(check_ready_status([app EXCEPT !.status_appearance = TRUE]), ui_stack, "")
         ELSE UIStep(app, ui_stack, "")

----------------------------------------------------------------------------
(* ClientApp.open_texture_dialog *)

\* From "if not textures" on, with the list in hand: the information box for an
\* empty list, or the selector dialog, which the user accepts or rejects.
\* `stack` is the call stack without this handler's frame.
ShowTextures(a, stack, textures) ==
    IF textures = <<>> THEN UIStep(a, stack, "")
    ELSE \E accepted \in BOOLEAN :
           IF accepted THEN UIStep(a, Push(stack, "tex_pump2"), "")
                       ELSE UIStep(a, stack, "")

\* btn_texture.clicked -> open_texture_dialog, up to its first blocking point
open_texture_dialog ==
    /\ Dispatch
    /\ app.btn_texture
    /\ PumpDepth(ui_stack) < MaxNest
    /\ IF app.texture_cache = None
       THEN UIStep(app, Push(ui_stack, "tex_pump1"), "")
       ELSE ShowTextures(app, ui_stack, app.texture_cache[1])

\* processEvents() of the "Loading List" branch returns
TexPump1Done ==
    /\ Top(ui_stack) = "tex_pump1"
    /\ IF app.texture_cache # None
       THEN ShowTextures(app, Pop(ui_stack), app.texture_cache[1])
       ELSE Exchange(app, Pop(ui_stack), "GET_TEXTURES", "tex_list_recv")

\* recv_pyobj() of GET_TEXTURES: a timeout, a reply whose status is not OK, or a list
TexListRecvOf(resp) ==
    /\ Top(ui_stack) = "tex_list_recv"
    /\ UNCHANGED <<mask_request, arrivals>>
    /\ cmd_wire' = Tail(cmd_wire)
    /\ UNCHANGED <<outerVars, senderVars, receiverVars, now>>
    /\ IF resp.kind = "Again"
       THEN /\ app' = app
            /\ ui_stack' = Pop(ui_stack)
       ELSE IF resp.status # "OK"
       THEN /\ app' = Replied(app)
            /\ ui_stack' = Pop(ui_stack)
       ELSE /\ app' = [Replied(app) EXCEPT !.texture_cache = Some(resp.textures)]
            /\ IF resp.textures = <<>> THEN ui_stack' = Pop(ui_stack)
               ELSE \E accepted \in BOOLEAN :
                      ui_stack' = IF accepted THEN Push(Pop(ui_stack), "tex_pump2")
                                              ELSE Pop(ui_stack)

TexListRecv == \E resp \in TextureListOutcomes : TexListRecvOf(resp)

\* processEvents() of the "Downloading HD" branch returns
TexPump2Done ==
    /\ Top(ui_stack) = "tex_pump2"
    /\ Exchange(app, Pop(ui_stack), "GET_TEXTURE_FULL", "tex_full_recv")

\* recv_pyobj() of GET_TEXTURE_FULL: on a reply (of either status) SET_TEXTURE is sent
TexFullRecv ==
    /\ Top(ui_stack) = "tex_full_recv"
    /\ UNCHANGED <<mask_request, arrivals>>
    /\ UNCHANGED <<outerVars, senderVars, receiverVars, now>>
    /\ \/ /\ app' = app
          /\ ui_stack' = Pop(ui_stack)
          /\ cmd_wire' = Tail(cmd_wire)
       \/ /\ app' = Sent(Replied(app))
          /\ ui_stack' = Push(Pop(ui_stack), "tex_set_recv")
          /\ cmd_wire' = Append(Tail(cmd_wire), "SET_TEXTURE")

NoMeshIn_any_reply(resp) == TRUE

NoMeshIn(resp) == resp = "NO MESH"

\* recv_string() of SET_TEXTURE ends as `resp`: raising zmq.Again at the
\* timeout, or returning a reply
TexSetRecvOf(resp) ==
    /\ Top(ui_stack) = "tex_set_recv"
    /\ UNCHANGED <<mask_request, arrivals>>
    /\ cmd_wire' = Tail(cmd_wire)
    /\ ui_stack' = Pop(ui_stack)
    /\ UNCHANGED <<outerVars, senderVars, receiverVars, now>>
    /\ app' = IF resp = "Again" THEN app
              ELSE IF resp = "OK" \/ NoMeshIn(resp)
                   THEN check_ready_status([Replied(app) EXCEPT !.status_appearance = TRUE])
                   ELSE Replied(app)

TexSetRecv == \E resp \in {"Again"} \cup SetTextureReplies : TexSetRecvOf(resp)

----------------------------------------------------------------------------
(* ResultReceiver.run and ClientApp.update_box_points *)

\* "while self.running", evaluated at the end of a pass through the loop
ReceiverLoop == IF life.running THEN "recv" ELSE "done"

valid_packet_with_timestamp(packet) ==
    {"box_points", "pose", "timestamp"} \subseteq DOMAIN packet

\* if "box_points" in packet and "pose" in packet
valid_packet(packet) ==
    "box_points" \in DOMAIN packet /\ "pose" \in DOMAIN packet

\* One recv_pyobj() on which `rcv` arrives: a valid packet is emitted as
\* new_result, anything else is dropped by the if or by "except Exception: pass".
ReceiverRecvOf(rcv) ==
    /\ connect.phase = "session"
    /\ r_pc = "recv"
    /\ n_packets < MaxResults
    /\ n_packets' = n_packets + 1
    /\ LET packet == [f \in rcv.fields |-> n_packets + 1]
       IN  result_queue' =
             IF rcv.decodes /\ valid_packet(packet)
             THEN Append(result_queue,
                         [points    |-> packet["box_points"],
                          pose      |-> packet["pose"],
                          timestamp |-> IF "timestamp" \in DOMAIN packet
                                        THEN packet["timestamp"] ELSE 0])
             ELSE result_queue
    /\ r_pc' = ReceiverLoop
    /\ UNCHANGED <<outerVars, uiVars, senderVars, now>>

ReceiverRecv == \E rcv \in Received : ReceiverRecvOf(rcv)

\* recv_pyobj() ends with zmq.Again after RCVTIMEO: continue
ReceiverTimeout ==
    /\ connect.phase = "session"
    /\ r_pc = "recv"
    /\ r_pc' = ReceiverLoop
    /\ UNCHANGED <<outerVars, uiVars, senderVars, n_packets, result_queue, now>>

RECURSIVE Evict_at_one_second(_, _)
Evict_at_one_second(buffer, t) ==
    IF buffer # <<>> /\ buffer[1] <= t - WindowTicks
    THEN Evict_at_one_second(Tail(buffer), t) ELSE buffer

\* while buffer and buffer[0] < now - 1.0: buffer.popleft()
RECURSIVE Evict(_, _)
Evict(buffer, t) ==
    IF buffer # <<>> /\ buffer[1] < t - WindowTicks THEN Evict(Tail(buffer), t) ELSE buffer

update_box_points_when_tracking(a, r, t) ==
    LET buffer == Evict(Append(a.tracking_fps_buffer, t), t)
        a1 == [a EXCEPT !.tracking_fps_buffer = buffer,
                        !.tracking_fps = Len(buffer)]
    IN  IF a.tracking_active
        THEN [a1 EXCEPT !.current_box_points = Some(r.points),
                        !.current_pose = Some(r.pose),
                        !.image_counter = @ + 1,
                        !.pose_log = Append(@, [id   |-> a.image_counter + 1,
                                                ts   |-> r.timestamp,
                                                pose |-> r.pose])]
        ELSE a1

update_box_points_log_always(a, r, t) ==
    LET buffer == Evict(Append(a.tracking_fps_buffer, t), t)
    IN  [a EXCEPT !.current_box_points = Some(r.points),
                  !.current_pose = Some(r.pose),
                  !.tracking_fps_buffer = buffer,
                  !.tracking_fps = Len(buffer),
                  !.image_counter = @ + 1,
                  !.pose_log = Append(@, [id   |-> a.image_counter + 1,
                                          ts   |-> r.timestamp,
                                          pose |-> r.pose])]

update_box_points(a, r, t) ==
    LET buffer == Evict(Append(a.tracking_fps_buffer, t), t)
        a1 == [a EXCEPT !.current_box_points = Some(r.points),
                        !.current_pose = Some(r.pose),
                        !.tracking_fps_buffer = buffer,
                        !.tracking_fps = Len(buffer)]
    IN  IF a.tracking_active
        THEN [a1 EXCEPT !.image_counter = @ + 1,
                        !.pose_log = Append(@, [id   |-> a.image_counter + 1,
                                                ts   |-> r.timestamp,
                                                pose |-> r.pose])]
        ELSE a1

\* The queued new_result signal is delivered to the UI thread.
ResultArrival ==
    /\ Dispatch
    /\ result_queue # <<>>
    /\ result_queue' = Tail(result_queue)
    /\ \E gap \in ArrivalGaps :
         /\ now + gap <= MaxTime
         /\ now' = now + gap
         /\ arrivals' = Append(arrivals, now + gap)
         /\ app' = update_box_points(app, Head(result_queue), now + gap)
    /\ UNCHANGED <<outerVars, ui_stack, cmd_wire, mask_request, senderVars, n_packets, r_pc>>

----------------------------------------------------------------------------
(* The session from the point where the setup is done *)

\* The object once the model, the appearance and the mask are ready
ReadyApp ==
    [InitApp EXCEPT !.status_cad = TRUE, !.status_appearance = TRUE,
                    !.status_mask = TRUE, !.mask_points = <<<<1, 1>>, <<2, 3>>>>,
                    !.btn_start = TRUE]

InitReady ==
    /\ app = ReadyApp
    /\ ui_stack = <<>> /\ cmd_wire = <<>> /\ mask_request = None /\ arrivals = <<>>
    /\ s_pc = "wait" /\ frame_no = 0 /\ video_queue = <<>> /\ send_outcome = "none"
    /\ captured = <<>> /\ sent_log = <<>> /\ shown = <<>>
    /\ n_packets = 0 /\ result_queue = <<>> /\ r_pc = "recv"
    /\ now = 0
    /\ connect = Connected
    /\ life = [run_flag |-> TRUE, running |-> TRUE, video_socket |-> "open", error |-> "none"]
    /\ proj = NoProjection
    /\ export = NoExport

\* The rate window on its own: new_result -> update_box_points at the clock
\* reading now + gap
RateArrival ==
    /\ Dispatch
    /\ Len(arrivals) < MaxArrivals
    /\ \E gap \in RateGaps :
         /\ now + gap <= MaxTime
         /\ now' = now + gap
         /\ arrivals' = Append(arrivals, now + gap)
         /\ app' = update_box_points(app, [points |-> 1, pose |-> 1, timestamp |-> 0],
                                     now + gap)
    /\ UNCHANGED <<outerVars, ui_stack, cmd_wire, mask_request, senderVars, receiverVars>>

\* update_box_points at arbitrary arrival times, around one start and one stop
SpecRate == InitReady /\ [][RateArrival \/ ClickStart \/ StopRecv]_vars

\* btn_log.clicked -> save_log_file: nothing happens on an empty log or without a
\* file name; otherwise the entries of pose_log are written to the file.  No
\* field of the object is assigned.
save_log_file ==
    /\ Dispatch
    /\ app.btn_log
    /\ \E path \in {"", "log.txt"} :
         IF app.pose_log = <<>> \/ path = ""
         THEN UNCHANGED vars
         ELSE UIStep(app, ui_stack, "")

----------------------------------------------------------------------------
(* RealSenseThread.run *)

\* "while self._run_flag", evaluated at the end of a pass through the loop
SenderLoop == IF life.run_flag THEN "wait" ELSE "finally"

\* wait_for_frames() returns; an incomplete frame set is skipped.
SenderWaitFrame ==
    /\ connect.phase = "session"
    /\ s_pc = "wait"
    /\ frame_no < MaxFrames
    /\ frame_no' = frame_no + 1
    /\ \E complete \in BOOLEAN :
         /\ s_pc' = IF complete THEN "check" ELSE SenderLoop
         /\ captured' = IF complete THEN Append(captured, frame_no + 1) ELSE captured
    /\ UNCHANGED <<outerVars, uiVars, video_queue, send_outcome, sent_log, shown,
                   receiverVars, now>>

\* "if self.tracking_active": without tracking the frame goes to the renderer only.
SenderCheck ==
    /\ s_pc = "check"
    /\ IF app.tracking_active
       THEN s_pc' = "send" /\ shown' = shown
       ELSE s_pc' = SenderLoop /\ shown' = Append(shown, frame_no)
    /\ UNCHANGED <<outerVars, uiVars, frame_no, video_queue, send_outcome, captured, sent_log,
                   receiverVars, now>>

payload_stale(frame) == IF frame > 1 THEN frame - 1 ELSE frame

\* payload = {...}: built from cv_img and depth_img of this pass
payload_of(frame) == frame

send_blocking(queue, frame) == Append(queue, frame)

\* video_socket.send_pyobj(payload, flags=zmq.NOBLOCK); zmq.Again is passed over.
send_noblock(queue, frame) ==
    IF Len(queue) < SNDHWM THEN Append(queue, frame) ELSE queue

emit_unless_dropped(frames, frame, outcome) ==
    IF outcome = "Again" THEN frames ELSE Append(frames, frame)

\* "except zmq.Again: pass" falls through to change_pixmap_signal.emit(p)
emit_after_send(frames, frame, outcome) == Append(frames, frame)

SenderSend ==
    /\ s_pc = "send"
    /\ video_queue' = send_noblock(video_queue, payload_of(frame_no))
    /\ send_outcome' = IF video_queue' = video_queue THEN "Again" ELSE "sent"
    /\ sent_log' = IF video_queue' = video_queue THEN sent_log
                   ELSE Append(sent_log, payload_of(frame_no))
    /\ shown' = emit_after_send(shown, frame_no, send_outcome')
    /\ s_pc' = SenderLoop
    /\ UNCHANGED <<outerVars, uiVars, frame_no, captured, receiverVars, now>>

\* The network takes the queued packet.
NetworkDrain ==
    /\ video_queue # <<>>
    /\ video_queue' = Tail(video_queue)
    /\ UNCHANGED <<outerVars, uiVars, s_pc, frame_no, send_outcome, captured, sent_log, shown,
                   receiverVars, now>>

----------------------------------------------------------------------------
(* ClientApp.closeEvent *)

\* The window is closed: self.thread.stop() clears _run_flag and waits for the
\* sender thread.  Nothing is sent on cmd_socket.
closeEvent_closes_socket ==
    /\ Dispatch
    /\ life' = [life EXCEPT !.run_flag = FALSE, !.video_socket = "closed"]
    /\ ui_stack' = Push(ui_stack, "close_wait_sender")
    /\ UNCHANGED <<pureVars, app, cmd_wire, mask_request, arrivals, connect,
                   senderVars, receiverVars, now>>

closeEvent ==
    /\ Dispatch
    /\ life' = [life EXCEPT !.run_flag = FALSE]
    /\ ui_stack' = Push(ui_stack, "close_wait_sender")
    /\ UNCHANGED <<pureVars, app, cmd_wire, mask_request, arrivals, connect,
                   senderVars, receiverVars, now>>

\* thread.wait() returns; self.result_receiver.stop() clears running and waits.
CloseSenderJoined ==
    /\ Top(ui_stack) = "close_wait_sender"
    /\ s_pc = "done"
    /\ life' = [life EXCEPT !.running = FALSE]
    /\ ui_stack' = Push(Pop(ui_stack), "close_wait_receiver")
    /\ UNCHANGED <<pureVars, app, cmd_wire, mask_request, arrivals, connect,
                   senderVars, receiverVars, now>>

\* result_receiver.wait() returns; the plotter is closed and the event accepted.
CloseReceiverJoined ==
    /\ Top(ui_stack) = "close_wait_receiver"
    /\ r_pc = "done"
    /\ connect' = [connect EXCEPT !.phase = "closed"]
    /\ ui_stack' = Pop(ui_stack)
    /\ UNCHANGED <<pureVars, app, cmd_wire, mask_request, arrivals, life,
                   senderVars, receiverVars, now>>

\* wait_for_frames() (or pipeline.start()) raises: the loop is left through
\* "except Exception", which emits connection_error_signal, and then "finally".
SenderFrameError ==
    /\ connect.phase = "session"
    /\ s_pc = "wait"
    /\ s_pc' = "finally"
    /\ life' = [life EXCEPT !.error = "queued"]
    /\ UNCHANGED <<pureVars, connect, uiVars, frame_no, video_queue, send_outcome, captured,
                   sent_log, shown, receiverVars, now>>

\* "finally": the pipeline is stopped, the video socket closed and the context
\* terminated; run() returns.
SenderFinally ==
    /\ s_pc = "finally"
    /\ s_pc' = "done"
    /\ life' = [life EXCEPT !.video_socket = "closed"]
    /\ UNCHANGED <<pureVars, connect, uiVars, frame_no, video_queue, send_outcome, captured,
                   sent_log, shown, receiverVars, now>>

\* The queued connection_error_signal is delivered: the message box is shown and
\* answered, then self.close() runs closeEvent.
show_camera_error_no_close ==
    /\ Dispatch
    /\ life.error = "queued"
    /\ life' = [life EXCEPT !.error = "shown"]
    /\ UNCHANGED <<pureVars, uiVars, connect, senderVars, receiverVars, now>>

show_camera_error ==
    /\ Dispatch
    /\ life.error = "queued"
    /\ life' = [life EXCEPT !.error = "shown", !.run_flag = FALSE]
    /\ ui_stack' = Push(ui_stack, "close_wait_sender")
    /\ UNCHANGED <<pureVars, app, cmd_wire, mask_request, arrivals, connect,
                   senderVars, receiverVars, now>>

NextClose ==
    \/ closeEvent
    \/ CloseSenderJoined
    \/ CloseReceiverJoined
    \/ SenderFrameError
    \/ SenderFinally
    \/ show_camera_error

----------------------------------------------------------------------------
NextUI ==
    \/ ClickStart
    \/ StopRecv
    \/ start_drawing_mode
    \/ handle_image_click
    \/ MaskRecv
    \/ upload_cad
    \/ CadRecv
    \/ pick_color
    \/ open_texture_dialog
    \/ TexPump1Done
    \/ TexListRecv
    \/ TexPump2Done
    \/ TexFullRecv
    \/ TexSetRecv
    \/ save_log_file

NextReceiver ==
    \/ ReceiverRecv
    \/ ReceiverTimeout
    \/ ResultArrival

NextSender ==
    \/ SenderWaitFrame
    \/ SenderCheck
    \/ SenderSend
    \/ NetworkDrain

\* The whole session: the UI thread, the receiver and the sender.
Next == NextUI \/ NextReceiver \/ NextSender \/ NextClose

Spec == Init /\ [][Next]_vars

\* The sender and the receiver share no variable and the UI thread reads none of
\* theirs, so each is checked with the UI thread alone.
SpecUI == Init /\ [][NextUI \/ NextReceiver]_vars

SpecSender == Init /\ [][NextUI \/ NextSender]_vars

\* The session from the point where the setup is done, up to the closing of the
\* window: start and stop of tracking, both threads, and closeEvent
SpecClose == InitReady /\ [][ClickStart \/ StopRecv \/ NextClose \/ NextSender \/ NextReceiver]_vars

\* The program from its start: the connection dialog, then the session's UI thread
\* and sender loop
SpecConnect == InitDialog /\ [][NextConnect \/ NextUI \/ NextSender]_vars

----------------------------------------------------------------------------
(* Steps of the session state machine, as seen on the state *)

AllReady(a) == a.status_cad /\ a.status_appearance /\ a.status_mask

StartStep == ~app.tracking_active /\ app'.tracking_active
StopStep  == app.tracking_active /\ ~app'.tracking_active

\* The fields a STOP exchange in progress must leave as stop_tracking reset them.
SessionFields(a) ==
    <<a.tracking_active, a.current_box_points, a.current_pose, a.status_mask, a.mask_points,
      a.status_cad, a.status_appearance, a.pose_log>>

----------------------------------------------------------------------------
(* C1: a telemetry packet is handed to the outbound channel only at a moment
   when tracking_active is true, in every interleaving of the UI thread and
   the sender loop. *)
C1_SendOnlyWhileTracking ==
    [][send_outcome' = "sent" /\ s_pc = "send" /\ s_pc' = "wait" => app.tracking_active]_vars

(* C2: a send attempted while the outbound queue is at capacity leaves the
   queue as it was (the packet is dropped, not queued), ends with zmq.Again
   passed over, and the loop goes on to wait for the next frame; whatever is
   queued is the frame of the current iteration, queued once; the queue never
   holds more than SNDHWM = 1 packet. *)
C2_DropWhenFull ==
    /\ [](Len(video_queue) <= SNDHWM)
    /\ [][/\ (s_pc = "send" /\ s_pc' # "send" /\ Len(video_queue) >= SNDHWM)
               => (video_queue' = video_queue /\ send_outcome' = "Again"
                   /\ s_pc' = "wait" /\ frame_no' = frame_no)
          /\ Len(video_queue') > Len(video_queue)
               => (s_pc = "send" /\ video_queue' = Append(video_queue, frame_no)
                   /\ \A i \in 1..Len(video_queue) : video_queue[i] < frame_no)]_vars

C2_Witness ==
    /\ send_outcome = "Again"
    /\ s_pc = "wait"
    /\ Len(video_queue) = SNDHWM
    /\ frame_no > video_queue[1]

(* C3: whenever tracking is active, the model, the appearance and the mask
   are all ready. *)
C3_TrackingImpliesReady ==
    app.tracking_active => AllReady(app)

C3_Witness ==
    app.tracking_active /\ AllReady(app) /\ app.image_counter > 0

(* C4: pressing start with the model and the appearance ready but the mask
   not ready changes nothing: tracking stays off, the session log is
   untouched and nothing is sent on the control channel; with the mask ready
   too the same press starts tracking and empties the session log. *)
C4_StartRejectedUntilMaskReady ==
    [][/\ (ClickStart /\ ~app.tracking_active
                      /\ app.status_cad /\ app.status_appearance /\ ~app.status_mask)
            => (app' = app /\ cmd_wire' = cmd_wire /\ ui_stack' = ui_stack)
       /\ (ClickStart /\ ~app.tracking_active /\ AllReady(app))
            => (app'.tracking_active /\ app'.pose_log = <<>> /\ cmd_wire' = cmd_wire)]_vars

C4_Witness ==
    /\ ~app.tracking_active
    /\ app.status_cad /\ app.status_appearance /\ ~app.status_mask
    /\ ~app.btn_start
    /\ app.pose_log # <<>>
    /\ Dispatch

(* C5: while tracking is off, the start control is enabled exactly when the
   model, the appearance and the mask are all ready. *)
C5_StartEnabledIffReady ==
    ~app.tracking_active => (app.btn_start <=> AllReady(app))

C5_Witness ==
    ~app.tracking_active /\ app.btn_start /\ app.btn_log /\ AllReady(app)

(* C6: an accepted start sets tracking_active and leaves the session log
   empty, the sequence counter 0, the rate window empty, the displayed rate 0
   and the latest box and pose empty; the three readiness flags and the mask
   points are unchanged. *)
C6_StartResetsSession ==
    [][StartStep =>
         /\ app'.pose_log = <<>>
         /\ app'.image_counter = 0
         /\ app'.tracking_fps_buffer = <<>>
         /\ app'.tracking_fps = 0
         /\ app'.current_box_points = None
         /\ app'.current_pose = None
         /\ app'.status_cad = app.status_cad
         /\ app'.status_appearance = app.status_appearance
         /\ app'.status_mask = app.status_mask
         /\ app'.mask_points = app.mask_points]_vars

C6_Witness ==
    /\ app.tracking_active
    /\ app.pose_log = <<>>
    /\ app.tracking_fps_buffer = <<>>
    /\ app.current_pose = None
    /\ now > 0
    /\ app.btn_start

(* C7: stopping clears the latest box and pose, the mask flag and the mask
   points and turns tracking off, keeps the model flag, the appearance flag
   and the session log, and the STOP exchange that follows changes none of
   these, so the handler ends in that state. *)
C7_StopResetsMaskKeepsLog ==
    [][/\ StopStep =>
            /\ app'.current_box_points = None
            /\ app'.current_pose = None
            /\ ~app'.status_mask
            /\ app'.mask_points = <<>>
            /\ app'.status_cad = app.status_cad
            /\ app'.status_appearance = app.status_appearance
            /\ app'.pose_log = app.pose_log
       /\ Top(ui_stack) = "stop_recv" =>
            /\ ~app.tracking_active
            /\ SessionFields(app') = SessionFields(app)]_vars

C7_Witness ==
    /\ ui_stack = <<>>
    /\ ~app.tracking_active
    /\ app.btn_log
    /\ app.pose_log # <<>>
    /\ app.mask_points = <<>>
    /\ ~app.drawing_mode
    /\ app.current_pose = None

(* C8: every stop puts exactly one STOP request on the control channel. *)
C8_StopSendsOneStop ==
    [][StopStep => cmd_wire' = Append(cmd_wire, "STOP")]_vars

(* C9: start_drawing_mode ends with drawing_mode set, no mask points, the
   mask flag off and tracking off; a STOP exchange begun by it is over before
   the mask state is reset, so drawing mode is never on while a STOP reply is
   awaited. *)
C9_DrawingModeResetsMask ==
    /\ [](app.drawing_mode => \A i \in 1..Len(ui_stack) : ui_stack[i] # "stop_recv")
    /\ [][/\ (start_drawing_mode /\ Top(ui_stack') # "stop_recv") =>
               /\ app'.drawing_mode
               /\ app'.mask_points = <<>>
               /\ ~app'.status_mask
               /\ ~app'.tracking_active
          /\ (start_drawing_mode /\ Top(ui_stack') = "stop_recv") =>
               /\ ~app'.tracking_active
               /\ app'.drawing_mode = app.drawing_mode
               /\ ui_stack' = Push(Push(ui_stack, "draw_cont"), "stop_recv")
          /\ (StopRecv /\ Top(Pop(ui_stack)) = "draw_cont") =>
               /\ app'.drawing_mode
               /\ app'.mask_points = <<>>
               /\ ~app'.status_mask
               /\ ~app'.tracking_active]_vars

C9_Witness ==
    /\ app.drawing_mode
    /\ app.mask_points = <<>>
    /\ ~app.status_mask
    /\ ~app.tracking_active
    /\ app.btn_log
    /\ app.pose_log # <<>>

(* C10: tracking and drawing mode are never on together. *)
C10_TrackingExcludesDrawing ==
    ~(app.tracking_active /\ app.drawing_mode)

C10_Witness ==
    /\ app.drawing_mode
    /\ Len(app.mask_points) = 1
    /\ app.status_cad /\ app.status_appearance
    /\ ~app.btn_start
    /\ ~app.tracking_active

(* C11: in drawing mode the first image click appends point 1 and sends
   nothing; the second click appends point 2, leaves drawing mode and puts
   one SET_MASK request with exactly these two points and the intrinsics on
   the control channel; the mask flag is raised only by the reply to that
   request and stays off when the wait ends without one; a click outside
   drawing mode changes nothing. *)
C11_TwoClicksSendOneMask ==
    [][/\ (handle_image_click /\ ~app.drawing_mode) => UNCHANGED vars
       /\ (handle_image_click /\ app.drawing_mode /\ app.mask_points = <<>>) =>
            /\ Len(app'.mask_points) = 1
            /\ app'.drawing_mode
            /\ cmd_wire' = cmd_wire
            /\ ui_stack' = ui_stack
       /\ (handle_image_click /\ app.drawing_mode /\ Len(app.mask_points) = 1) =>
            /\ Len(app'.mask_points) = 2
            /\ app'.mask_points[1] = app.mask_points[1]
            /\ ~app'.drawing_mode
            /\ cmd_wire' = Append(cmd_wire, "SET_MASK")
            /\ mask_request' = Some([points |-> app'.mask_points, K |-> CameraK])
       /\ (~app.status_mask /\ app'.status_mask) =>
            (MaskRecv /\ app.cmd_state = "awaiting" /\ app'.cmd_state = "ready")
       /\ (MaskRecv /\ app'.cmd_state = "awaiting") => ~app'.status_mask]_vars

(* C12: at most one request is in flight on the control channel at any time,
   and while one is in flight the UI thread is blocked in the recv of that
   exchange, so no handler, re-entered from an event pump or not, sends
   before the reply has come or the wait has timed out. *)
C12_OneRequestInFlight ==
    /\ Len(cmd_wire) <= 1
    /\ cmd_wire # <<>> => (Top(ui_stack) \in RecvFrames /\ app.cmd_state = "awaiting")

C12_Witness ==
    /\ Len(ui_stack) = 2
    /\ ui_stack[1] \in PumpFrames
    /\ ui_stack[2] \in RecvFrames
    /\ Len(cmd_wire) = 1

(* C13: a probe sends at most one PING, and exactly one whenever it ends with
   a reply or a timeout; a probe is accepted exactly when a reply came,
   whatever its text, and then the typed address is the accepted one; a
   session exists only after an accepted probe, and as long as no probe was
   answered no address is accepted and nothing of the session has happened. *)
C13_SessionOnlyAfterProbe ==
    /\ [](connect.phase = "session" =>
             /\ connect.accepted
             /\ connect.last.kind = "reply"
             /\ connect.entered_ip # None
             /\ connect.pings >= 1)
    /\ [](connect.last.kind # "reply" =>
             /\ ~connect.accepted
             /\ connect.entered_ip = None
             /\ connect.phase # "session"
             /\ app = InitApp /\ ui_stack = <<>> /\ cmd_wire = <<>>
             /\ s_pc = "wait" /\ frame_no = 0 /\ n_packets = 0)
    /\ [][connect'.probes > connect.probes =>
             /\ ConnectClick
             /\ connect'.pings <= connect.pings + 1
             /\ connect'.last.kind \in {"reply", "Again"} => connect'.pings = connect.pings + 1
             /\ connect'.accepted <=> connect'.last.kind = "reply"
             /\ connect'.accepted => connect'.entered_ip \in {Some(ip) : ip \in TypedIps \ {""}}
             /\ connect'.phase = "dialog"]_vars

C13_Witness ==
    /\ connect.phase = "session"
    /\ connect.probes = 2
    /\ connect.last = [kind |-> "reply", text |-> "ERROR"]
    /\ connect.entered_ip = Some("10.0.0.6")
    /\ app.status_cad
    /\ frame_no > 0

(* C14: the receiver emits a result exactly when the received bytes decode to
   a packet holding both box_points and pose, and then the result carries that
   packet's box, pose and timestamp (0 without one); any other packet leaves
   the queued results as they are; receiving never touches the UI state
   (latest box and pose, rate window, session log), and after every packet,
   kept or dropped, the loop is back at recv while running is set. *)
C14_PublishIffBoxAndPose ==
    [][\A rcv \in Received : ReceiverRecvOf(rcv) =>
         /\ IF rcv.decodes /\ {"box_points", "pose"} \subseteq rcv.fields
            THEN /\ Len(result_queue') = Len(result_queue) + 1
                 /\ SubSeq(result_queue', 1, Len(result_queue)) = result_queue
                 /\ result_queue'[Len(result_queue')].points = n_packets'
                 /\ result_queue'[Len(result_queue')].pose = n_packets'
                 /\ result_queue'[Len(result_queue')].timestamp =
                        IF "timestamp" \in rcv.fields THEN n_packets' ELSE 0
            ELSE result_queue' = result_queue
         /\ app' = app
         /\ life.running => r_pc' = "recv"]_vars

\* The first packet was dropped and the second, a valid one without a
\* timestamp, has reached the UI thread.
C14_Witness ==
    /\ n_packets = 2
    /\ result_queue = <<>>
    /\ app.current_pose = Some(2)
    /\ app.tracking_fps = 1
    /\ ~app.tracking_active /\ ~app.btn_log
    /\ r_pc = "recv"

(* C15: every delivered result replaces the latest box and pose, with
   tracking on or off, and between a start and a stop of tracking nothing
   else changes them, so they are always those of the result that arrived
   last. *)
C15_LatestIsLastArrival ==
    [][/\ ResultArrival =>
            /\ app'.current_box_points = Some(Head(result_queue).points)
            /\ app'.current_pose = Some(Head(result_queue).pose)
       /\ (~ResultArrival /\ ~StartStep /\ ~StopStep) =>
            /\ app'.current_box_points = app.current_box_points
            /\ app'.current_pose = app.current_pose]_vars

(* C15, amended: every delivered result replaces the latest box and pose,
   with tracking on or off; apart from the start and the stop of tracking
   nothing else changes the latest pose, and the only other change of the
   latest box is start_drawing_mode, which clears it and keeps the pose. *)
C15_LatestReplacedOnArrival ==
    [][/\ ResultArrival =>
            /\ app'.current_box_points = Some(Head(result_queue).points)
            /\ app'.current_pose = Some(Head(result_queue).pose)
       /\ (~ResultArrival /\ ~StartStep /\ ~StopStep) =>
            /\ app'.current_pose = app.current_pose
            /\ \/ app'.current_box_points = app.current_box_points
               \/ start_drawing_mode /\ app'.current_box_points = None]_vars

\* Two results arrived while tracking was off, then drawing mode was entered.
C15_Witness ==
    /\ ~app.tracking_active /\ ~app.btn_log
    /\ app.tracking_fps = 2
    /\ app.current_pose = Some(2)
    /\ app.current_box_points = None
    /\ app.drawing_mode

(* C16: a delivered result appends one entry (next id, the packet's timestamp
   and pose) to the session log exactly when tracking is on at the delivery;
   nothing else appends, no step removes or rewrites an entry except the
   start of tracking, which empties the log; so between a stop and the next
   start neither result arrivals nor the export change the log. *)
C16_LogAppendsOnlyWhileTracking ==
    [][/\ (ResultArrival /\ app.tracking_active) =>
            app'.pose_log = Append(app.pose_log,
                                   [id   |-> app.image_counter + 1,
                                    ts   |-> Head(result_queue).timestamp,
                                    pose |-> Head(result_queue).pose])
       /\ (ResultArrival /\ ~app.tracking_active) => app'.pose_log = app.pose_log
       /\ save_log_file => app'.pose_log = app.pose_log
       /\ app'.pose_log # app.pose_log =>
            \/ ResultArrival /\ app.tracking_active
            \/ StartStep /\ app'.pose_log = <<>>]_vars

\* After a stop with one entry logged, a second result has arrived and the log
\* still holds that one entry.
C16_Witness ==
    /\ ~app.tracking_active
    /\ app.btn_log
    /\ Len(app.pose_log) = 1
    /\ app.current_pose = Some(2)
    /\ app.pose_log[1].pose = 1

(* C17: after every delivery of a result at clock reading now, the rate
   window holds exactly the arrival times t since tracking was last started
   (or since construction) with t >= now - 1.0 s, the new arrival at its end:
   an entry exactly 1.0 s old is kept, an older one is not; the displayed
   rate is the size of the window; arrivals at 0.0, 0.3, 0.9 and 1.2 s leave
   a window of size 3 at 1.2 s. *)
C17_RateWindowIsLastSecond ==
    [][RateArrival =>
         /\ app'.tracking_fps_buffer =
                SelectSeq(arrivals', LAMBDA t : t >= now' - WindowTicks)
         /\ app'.tracking_fps_buffer[Len(app'.tracking_fps_buffer)] = now'
         /\ app'.tracking_fps = Len(app'.tracking_fps_buffer)
         /\ arrivals' = <<0, 3, 9, 12>> =>
                (app'.tracking_fps = 3 /\ app'.tracking_fps_buffer = <<3, 9, 12>>)
         /\ arrivals' = <<0, 10>> => app'.tracking_fps_buffer = <<0, 10>>
         /\ arrivals' = <<0, 11>> => app'.tracking_fps_buffer = <<11>>]_vars

C17_Witness ==
    /\ arrivals = <<0, 3, 9, 12>>
    /\ app.tracking_fps = 3
    /\ app.tracking_fps_buffer = <<3, 9, 12>>

(* C18: every frame set with both frames is emitted to the renderer exactly
   once, at the end of its pass through the loop, with tracking on or off and
   whether its packet was queued or dropped; the pass then returns to
   wait_for_frames whatever tracking_active is. *)
C18_OneNotificationPerFrame ==
    /\ [](shown = IF s_pc \in {"check", "send"}
                  THEN SubSeq(captured, 1, Len(captured) - 1)
                  ELSE captured)
    /\ [][/\ (s_pc \in {"check", "send"} /\ s_pc' \notin {"check", "send"}) =>
               /\ shown' = Append(shown, frame_no)
               /\ life.run_flag => s_pc' = "wait"
          /\ shown' # shown =>
               (s_pc \in {"check", "send"} /\ s_pc' \notin {"check", "send"})]_vars

\* Two frames shown, the second one after its packet was dropped, and tracking
\* stopped since.
C18_Witness ==
    /\ shown = <<1, 2>>
    /\ sent_log = <<1>>
    /\ send_outcome = "Again"
    /\ ~app.tracking_active
    /\ s_pc = "wait"

(* C19: the packets handed to the outbound channel are frames that were
   captured, in capture order and each at most once: frames may be missing
   from the sequence, none is out of order or repeated. *)
C19_SentIsSubsequenceOfCaptured ==
    /\ \A i \in 1..Len(sent_log) : \E j \in 1..Len(captured) : sent_log[i] = captured[j]
    /\ \A i, j \in 1..Len(sent_log) : i < j => sent_log[i] < sent_log[j]
    /\ \A i, j \in 1..Len(captured) : i < j => captured[i] < captured[j]

\* Frame 1 was queued and frame 2 dropped behind it.
C19_Witness ==
    /\ captured = <<1, 2>>
    /\ sent_log = <<1>>
    /\ video_queue = <<1>>
    /\ send_outcome = "Again"
    /\ app.tracking_active

(* C20: closing the client puts a STOP request on the control channel when
   the socket can send, also when tracking is active at the close. *)
C20_CloseAttemptsStop ==
    [][(closeEvent /\ CanSend(app)) => cmd_wire' = Append(cmd_wire, "STOP")]_vars

----------------------------------------------------------------------------
\* The fair session: each thread that can take a step takes one, the frame source
\* returns (with a frame or an error), a receive with nothing to read times out
\* and the event loop delivers a queued signal.
FairClose ==
    /\ WF_vars(ReceiverRecv \/ ReceiverTimeout)
    /\ WF_vars(SenderWaitFrame \/ SenderFrameError)
    /\ WF_vars(SenderCheck \/ SenderSend \/ SenderFinally)
    /\ WF_vars(CloseSenderJoined \/ CloseReceiverJoined)
    /\ WF_vars(StopRecv)
    /\ SF_vars(show_camera_error)

\* The delivery of queued results to the UI thread is left out: it changes only
\* the overlay, the log and the rate, which no step of the teardown reads.
SpecCloseFair ==
    /\ InitReady
    /\ [][ClickStart \/ StopRecv \/ NextClose \/ NextSender
             \/ ReceiverRecv \/ ReceiverTimeout]_vars
    /\ FairClose

(* C21: once running is cleared the receiver loop exits, by a receive that
   times out when no result arrives; once _run_flag is cleared the sender loop
   pulls at most the frame it is waiting for and exits at the end of that pass;
   the window is closed only when both loops have returned; and the video
   socket is closed only by the sender thread after its loop, so no send ever
   meets a closed socket. *)
C21_LoopsExitBeforeRelease ==
    /\ (~life.running) ~> (r_pc = "done")
    /\ (~life.run_flag) ~> (s_pc \in {"finally", "done"})
    /\ [](~life.running /\ r_pc = "recv" => ENABLED ReceiverTimeout)
    /\ [][~life.run_flag =>
            /\ s_pc' = "wait" => s_pc = "wait"
            /\ s_pc # "wait" => frame_no' = frame_no]_vars
    /\ [](Top(ui_stack) = "close_wait_receiver" => s_pc = "done")
    /\ [](connect.phase = "closed" => s_pc = "done" /\ r_pc = "done")
    /\ [](life.video_socket = "closed" => s_pc = "done")
    /\ [][SenderSend => life.video_socket = "open"]_vars

\* The window was closed while tracking with no camera error: the sender left
\* its loop after a frame it had sent, and the receiver left on a timeout with
\* no result ever received.
C21_Witness ==
    /\ connect.phase = "closed"
    /\ life.error = "none"
    /\ app.tracking_active
    /\ Len(sent_log) > 0
    /\ n_packets = 0
    /\ life.video_socket = "closed"

(* C22: a failing frame source ends the sender loop at once: from then on no
   frame is pulled and no packet is sent, the video socket gets closed, and the
   error is delivered to the UI thread, whose handler closes the window; the
   closing stops the receiver too. If the window is being closed already, the
   same teardown is under way. *)
C22_FrameFailureIsFatal ==
    /\ [][SenderFrameError => s_pc' = "finally" /\ life'.error = "queued"]_vars
    /\ [](life.error # "none" => s_pc \in {"finally", "done"})
    /\ [][life.error # "none" =>
            /\ frame_no' = frame_no
            /\ sent_log' = sent_log
            /\ captured' = captured]_vars
    /\ [][show_camera_error =>
            /\ ~life'.run_flag
            /\ Top(ui_stack') = "close_wait_sender"]_vars
    /\ (life.error # "none") ~>
            /\ life.video_socket = "closed"
            /\ connect.phase = "closed"
            /\ ~life.running
            /\ r_pc = "done"

\* The camera failed during tracking after a frame was sent; the error was
\* shown and the window closed with both threads returned.
C22_Witness ==
    /\ life.error = "shown"
    /\ connect.phase = "closed"
    /\ app.tracking_active
    /\ Len(sent_log) > 0
    /\ s_pc = "done"
    /\ r_pc = "done"

----------------------------------------------------------------------------
(* update_image.project. Lengths are integers in units of 1/Milli, so that the
   0.001 of the source is 1; the entries of the rotation and of K are plain
   integers. The arithmetic is exact. *)

Milli   == 1000
Epsilon == 1

Identity3 == <<<<1, 0, 0>>, <<0, 1, 0>>, <<0, 0, 1>>>>
RotX180   == <<<<1, 0, 0>>, <<0, -1, 0>>, <<0, 0, -1>>>>
RotZ90    == <<<<0, -1, 0>>, <<1, 0, 0>>, <<0, 0, 1>>>>

\* The 4x4 pose matrix of a rotation and a translation.
Pose4(R, t) ==
    <<R[1] \o <<t[1]>>, R[2] \o <<t[2]>>, R[3] \o <<t[3]>>, <<0, 0, 0, 1>>>>

KMatrix(fx, fy, ppx, ppy) == <<<<fx, 0, ppx>>, <<0, fy, ppy>>, <<0, 0, 1>>>>

Points3d == {<<x, y, z>> : x \in {-1500, 0, 700, 2500}, y \in {-300, 0, 1999},
                           z \in {-1000, 0, 1, 2, 1000, 3000}}
Poses == {None} \cup
         {Some(Pose4(R, t)) : R \in {Identity3, RotX180, RotZ90},
                              t \in {<<0, 0, 0>>, <<100, -250, 1500>>}}
Intrinsics == {KMatrix(1, 1, 0, 0), KMatrix(600, 601, 320, 240)}

\* M @ v for a 3x3 matrix
MatVec(M, v) == [i \in 1..3 |-> M[i][1] * v[1] + M[i][2] * v[2] + M[i][3] * v[3]]

\* int(a / b): the quotient without its fractional part
IntDiv_floor(a, b) == a \div b

IntDiv(a, b) ==
    IF (a >= 0) = (b > 0)
    THEN (IF a >= 0 THEN a ELSE -a) \div (IF b > 0 THEN b ELSE -b)
    ELSE -((IF a >= 0 THEN a ELSE -a) \div (IF b > 0 THEN b ELSE -b))

project(p_3d, pose, K) ==
    IF pose = None THEN None
    ELSE LET R == [i \in 1..3 |-> SubSeq(pose[1][i], 1, 3)]
             t == [i \in 1..3 |-> pose[1][i][4]]
             Rp == MatVec(R, p_3d)
             p_cam == [i \in 1..3 |-> Rp[i] + t[i]]
             p_img == MatVec(K, p_cam)
         IN  IF p_cam[3] <= Epsilon THEN None
             ELSE Some(<<IntDiv(p_img[1], p_img[3]), IntDiv(p_img[2], p_img[3])>>)

\* A call of project about to be made, with its arguments
InitProject ==
    /\ InitSession
    /\ connect = Connected
    /\ \E p \in Points3d, pose \in Poses, K \in Intrinsics :
         proj = [phase |-> "call", p_3d |-> p, pose |-> pose, K |-> K]
    /\ export = NoExport

ProjectReturn ==
    /\ proj.phase = "call"
    /\ proj' = [phase |-> "returned", p_3d |-> proj.p_3d, pose |-> proj.pose, K |-> proj.K,
                result |-> project(proj.p_3d, proj.pose, proj.K)]
    /\ UNCHANGED <<uiVars, senderVars, receiverVars, now, connect, life, export>>

SpecProject == InitProject /\ [][ProjectReturn]_vars

(* C23: a call of project with a pose returns nothing when the z of R*p + t is
   at most 0.001; otherwise it returns the two quotients of K*(R*p + t) by its
   third component with their fractional parts dropped (rounded towards zero).
   With the identity pose, K = diag(1,1,1) and z = 1 the result is the point's
   own x and y rounded towards zero. *)
C23_ProjectTruncatesOrRejects ==
    (proj.phase = "returned" /\ proj.pose # None) =>
        LET P == proj.pose[1]
            p == proj.p_3d
            K == proj.K
            X == P[1][1] * p[1] + P[1][2] * p[2] + P[1][3] * p[3] + P[1][4]
            Y == P[2][1] * p[1] + P[2][2] * p[2] + P[2][3] * p[3] + P[2][4]
            Z == P[3][1] * p[1] + P[3][2] * p[2] + P[3][3] * p[3] + P[3][4]
            u == K[1][1] * X + K[1][2] * Y + K[1][3] * Z
            v == K[2][1] * X + K[2][2] * Y + K[2][3] * Z
            w == K[3][1] * X + K[3][2] * Y + K[3][3] * Z
            IsTrunc(r, a, b) ==
                IF a >= 0 THEN r >= 0 /\ r * b <= a /\ a < (r + 1) * b
                          ELSE r <= 0 /\ r * b >= a /\ a > (r - 1) * b
        IN  /\ Z <= Epsilon => proj.result = None
            /\ Z > Epsilon =>
                  /\ proj.result # None
                  /\ IsTrunc(proj.result[1][1], u, w)
                  /\ IsTrunc(proj.result[1][2], v, w)
            /\ ( /\ proj.pose = Some(Pose4(Identity3, <<0, 0, 0>>))
                 /\ K = KMatrix(1, 1, 0, 0)
                 /\ p[3] = Milli ) =>
                  /\ proj.result # None
                  /\ IsTrunc(proj.result[1][1], p[1], Milli)
                  /\ IsTrunc(proj.result[1][2], p[2], Milli)

\* The point (-1.5, 1.999, 1) under the identity pose and K = diag(1,1,1) was
\* projected to (-1, 1).
C23_Witness ==
    /\ proj.phase = "returned"
    /\ proj.p_3d = <<-1500, 1999, 1000>>
    /\ proj.pose = Some(Pose4(Identity3, <<0, 0, 0>>))
    /\ proj.K = KMatrix(1, 1, 0, 0)
    /\ proj.result = Some(<<-1, 1>>)

----------------------------------------------------------------------------
(* save_log_file. A timestamp is an integer number of microseconds and a pose
   entry an integer number of thousandths; the file is the sequence of its
   lines, every write of the source ending in a newline. *)

DigitChars == <<"0", "1", "2", "3", "4", "5", "6", "7", "8", "9">>

RECURSIVE Pow10(_)
Pow10(k) == IF k = 0 THEN 1 ELSE 10 * Pow10(k - 1)

\* str() of a natural number
RECURSIVE Dec(_)
Dec(n) == IF n < 10 THEN DigitChars[n + 1] ELSE Dec(n \div 10) \o DigitChars[(n % 10) + 1]

\* the w low digits of n, with leading zeros
RECURSIVE PadDec(_, _)
PadDec(n, w) == IF w = 0 THEN "" ELSE PadDec(n \div 10, w - 1) \o DigitChars[(n % 10) + 1]

Abs(v) == IF v < 0 THEN -v ELSE v

FormatF_no_padding(space, v, sd, nd) ==
    (IF v < 0 THEN "-" ELSE IF space THEN " " ELSE "")
        \o Dec(Abs(v) \div Pow10(sd)) \o "." \o PadDec(Abs(v) % Pow10(sd), sd)

\* format(x, ".<nd>f") and, with space, format(x, " .<nd>f"), of x = v / 10^sd
\* with sd <= nd
FormatF(space, v, sd, nd) ==
    (IF v < 0 THEN "-" ELSE IF space THEN " " ELSE "")
        \o Dec(Abs(v) \div Pow10(sd)) \o "." \o PadDec(Abs(v) % Pow10(sd), sd)
        \o PadDec(0, nd - sd)

\* str.strip() of a string whose only whitespace is the space
RECURSIVE Strip(_)
Strip(s) ==
    IF s = "" THEN s
    ELSE IF Head(s) = " " THEN Strip(Tail(s))
    ELSE IF SubSeq(s, Len(s), Len(s)) = " " THEN Strip(SubSeq(s, 1, Len(s) - 1))
    ELSE s

\* "".join([f"[{x: .15f}] " for x in row])
RECURSIVE JoinRow(_)
JoinRow(row) ==
    IF row = <<>> THEN ""
    ELSE "[" \o FormatF(TRUE, Head(row), 3, 15) \o "] " \o JoinRow(Tail(row))

\* the lines written for the rows of a pose
RECURSIVE PoseLines(_)
PoseLines(pose) ==
    IF pose = <<>> THEN <<>>
    ELSE <<Strip(JoinRow(Head(pose)))>> \o PoseLines(Tail(pose))

\* the lines written for the entries, in the order of the list
RECURSIVE LogLines(_)
LogLines(log) ==
    IF log = <<>> THEN <<>>
    ELSE <<"Image: " \o Dec(Head(log).id),
           "Timestamp: " \o FormatF(FALSE, Head(log).ts, 6, 6)>>
         \o PoseLines(Head(log).pose) \o <<"">> \o LogLines(Tail(log))

\* A pose in thousandths
ScaledPose(R, t) ==
    [i \in 1..4 |-> [j \in 1..4 |->
        IF i = 4 THEN (IF j = 4 THEN Milli ELSE 0)
        ELSE IF j = 4 THEN t[i] ELSE Milli * R[i][j]]]

ExportPoses == {ScaledPose(Identity3, <<0, 0, 0>>), ScaledPose(RotX180, <<100, -250, 1500>>)}
ExportTimes == {0, 123456, 12000005}

\* The logs a session can have built: the i-th entry has id i
ExportLogs ==
    UNION {[1..n -> ExportTimes \X ExportPoses] : n \in 0..MaxLog}

LogOf(f) == [i \in DOMAIN f |-> [id |-> i, ts |-> f[i][1], pose |-> f[i][2]]]

InitExport ==
    /\ InitSession
    /\ connect = Connected
    /\ proj = NoProjection
    /\ \E f \in ExportLogs :
         export = [phase |-> "call", pose_log |-> LogOf(f)]

\* save_log_file with the path the dialog returned and whether open() raised
save_log_file_pure ==
    /\ export.phase = "call"
    /\ \E file_path \in {"", "log.txt"}, opened \in BOOLEAN :
         export' =
            IF export.pose_log = <<>> \/ file_path = "" \/ ~opened
            THEN [phase |-> "returned", pose_log |-> export.pose_log,
                  file |-> None, btn_log |-> "Download Log"]
            ELSE [phase |-> "returned", pose_log |-> export.pose_log,
                  file |-> Some(LogLines(export.pose_log)), btn_log |-> "Saved"]
    /\ UNCHANGED <<uiVars, senderVars, receiverVars, now, connect, life, proj>>

SpecExport == InitExport /\ [][save_log_file_pure]_vars

\* The number a string of decimal digits denotes
RECURSIVE ParseNat(_)
ParseNat(s) ==
    IF s = "" THEN 0
    ELSE 10 * ParseNat(SubSeq(s, 1, Len(s) - 1))
         + (CHOOSE d \in 0..9 : DigitChars[d + 1] = SubSeq(s, Len(s), Len(s)))

(* C24: an export that writes the file writes, for each entry of the log in
   the log's order, seven lines: "Image: " and the id; "Timestamp: " and the
   timestamp with exactly 6 fractional digits; the four pose rows, each of four
   fields "[sx.ddddddddddddddd]" with s a space or a minus sign and 15
   fractional digits, separated by one space and with no space at the end; and
   an empty line. The log [{1, 0.123456, I4}] gives "Image: 1",
   "Timestamp: 0.123456" and "[ 1.000000000000000]" on the diagonal. An empty
   log writes nothing. *)
C24_ExportWritesOneBlockPerEntry ==
    export.phase = "returned" =>
        LET log == export.pose_log
        IN  /\ log = <<>> => export.file = None
            /\ export.file # None =>
                LET F == export.file[1]
                IN  /\ Len(F) = 7 * Len(log)
                    /\ \A i \in 1..Len(log) :
                         LET b == 7 * (i - 1)
                             e == log[i]
                             I == F[b + 1]
                             T == F[b + 2]
                             n == Len(T)
                         IN  /\ SubSeq(I, 1, 7) = "Image: "
                             /\ ParseNat(SubSeq(I, 8, Len(I))) = e.id
                             /\ SubSeq(T, 1, 11) = "Timestamp: "
                             /\ SubSeq(T, n - 6, n - 6) = "."
                             /\ ParseNat(SubSeq(T, 12, n - 7)) * 1000000
                                    + ParseNat(SubSeq(T, n - 5, n)) = e.ts
                             /\ \A r \in 1..4 :
                                  LET L == F[b + 2 + r]
                                  IN  /\ Len(L) = 83
                                      /\ \A c \in 1..4 :
                                           LET o == 21 * (c - 1)
                                               x == e.pose[r][c]
                                           IN  /\ SubSeq(L, o + 1, o + 1) = "["
                                               /\ SubSeq(L, o + 2, o + 2) = (IF x < 0 THEN "-" ELSE " ")
                                               /\ SubSeq(L, o + 4, o + 4) = "."
                                               /\ ParseNat(SubSeq(L, o + 3, o + 3)) * 1000
                                                      + ParseNat(SubSeq(L, o + 5, o + 7)) = Abs(x)
                                               /\ SubSeq(L, o + 8, o + 19) = "000000000000"
                                               /\ SubSeq(L, o + 20, o + 20) = "]"
                                               /\ c < 4 => SubSeq(L, o + 21, o + 21) = " "
                             /\ F[b + 7] = ""
                    /\ log = <<[id |-> 1, ts |-> 123456,
                                pose |-> ScaledPose(Identity3, <<0, 0, 0>>)]>> =>
                         /\ F[1] = "Image: 1"
                         /\ F[2] = "Timestamp: 0.123456"
                         /\ \A r \in 1..4 :
                              SubSeq(F[2 + r], 21 * (r - 1) + 1, 21 * (r - 1) + 20)
                                 = "[ 1.000000000000000]"

\* A log of two entries was written: fourteen lines, the second block with
\* the timestamp 12.000005 and a pose with negative entries.
C24_Witness ==
    /\ export.phase = "returned"
    /\ export.file # None
    /\ Len(export.pose_log) = 2
    /\ Len(export.file[1]) = 14
    /\ export.file[1][8] = "Image: 2"
    /\ export.file[1][9] = "Timestamp: 12.000005"
    /\ export.file[1][11] =
         "[ 0.000000000000000] [-1.000000000000000] [ 0.000000000000000] [-0.250000000000000]"
    /\ export.btn_log = "Saved"

(* C25: status_cad changes only by becoming true when the reply of an
   UPLOAD_CAD exchange arrives, and a timed-out or unsent upload leaves it as it
   was; status_appearance changes only by becoming true, when a colour is
   picked or when SET_TEXTURE is answered "OK" or with NO MESH, and a timeout,
   any other reply or an unsent request leaves it as it was. *)
C25_ReadyOnlyOnSuccess ==
    /\ [][\A replied \in BOOLEAN :
            CadRecvOf(replied) => app'.status_cad = (app.status_cad \/ replied)]_vars
    /\ [][app'.status_cad # app.status_cad =>
            /\ app'.status_cad
            /\ CadRecvOf(TRUE)
            /\ Head(cmd_wire) = "UPLOAD_CAD"]_vars
    /\ [][\A resp \in {"Again"} \cup SetTextureReplies :
            TexSetRecvOf(resp) =>
               app'.status_appearance =
                  (app.status_appearance \/ resp \in {"OK", "NO MESH"})]_vars
    /\ [][app'.status_appearance # app.status_appearance =>
            /\ app'.status_appearance
            /\ \/ pick_color
               \/ /\ TexSetRecvOf("OK") \/ TexSetRecvOf("NO MESH")
                  /\ Head(cmd_wire) = "SET_TEXTURE"]_vars

\* Both flags are set, the texture list has been fetched, and a later exchange
\* has timed out without touching them.
C25_Witness ==
    /\ app.status_cad
    /\ app.status_appearance
    /\ app.texture_cache # None
    /\ app.cmd_state = "awaiting"
    /\ ui_stack = <<>>

(* C26: tracking starts only with status_mask set; every stop of tracking
   clears status_mask and the points; status_mask is set only when the reply to
   a SET_MASK request carrying the two current points arrives; points are added
   only one at a time by clicks in drawing mode, and drawing mode is entered
   only by start_drawing_mode, with no points. So between two starts the mask
   is drawn and acknowledged anew. *)
C26_NewMaskForEachRun ==
    /\ [][StartStep => app.status_mask /\ Len(app.mask_points) = 2]_vars
    /\ [][StopStep => ~app'.status_mask /\ app'.mask_points = <<>>]_vars
    /\ [][(~app.status_mask /\ app'.status_mask) =>
            /\ MaskRecvOf(TRUE)
            /\ Head(cmd_wire) = "SET_MASK"
            /\ Len(app.mask_points) = 2
            /\ mask_request = Some(SetMaskRequest(app))
            /\ ~app.tracking_active]_vars
    /\ [][Len(app'.mask_points) > Len(app.mask_points) =>
            /\ app.drawing_mode
            /\ Len(app'.mask_points) = Len(app.mask_points) + 1
            /\ SubSeq(app'.mask_points, 1, Len(app.mask_points)) = app.mask_points]_vars
    /\ [][(~app.drawing_mode /\ app'.drawing_mode) =>
            /\ app'.mask_points = <<>>
            /\ ~app'.status_mask
            /\ ~app'.tracking_active]_vars
    /\ [][(app'.mask_points # app.mask_points /\ app.status_mask) =>
            ~app'.status_mask]_vars

\* A tracking run is over (its log can be saved) and a new mask has been drawn
\* and acknowledged since: the start button is enabled again.
C26_Witness ==
    /\ ~app.tracking_active
    /\ app.btn_log
    /\ app.status_mask
    /\ Len(app.mask_points) = 2
    /\ mask_request = None
    /\ app.btn_start
    /\ app.cmd_state = "ready"

(* C27: mask_points never holds more than two points; in drawing mode it
   holds fewer than two and status_mask is false; with status_mask true it
   holds exactly two and drawing mode is off. *)
C27_MaskStateConsistent ==
    /\ Len(app.mask_points) <= 2
    /\ app.drawing_mode => Len(app.mask_points) < 2 /\ ~app.status_mask
    /\ app.status_mask => Len(app.mask_points) = 2 /\ ~app.drawing_mode

\* One point has been clicked in drawing mode, inside a handler re-entered
\* from an event pump.
C27_Witness ==
    /\ app.drawing_mode
    /\ Len(app.mask_points) = 1
    /\ ui_stack # <<>>

(* C28: whenever the UI thread is back in its event loop or in an event pump,
   with no receive in progress, cmd_socket accepts the next request: an exchange
   that ended in a timeout has not left the socket waiting for its reply. *)
C28_TimeoutLeavesChannelUsable ==
    Dispatch => CanSend(app)

(* C29: pose_log has image_counter entries and its i-th entry has id i; a
   start of tracking empties the log and sets the counter to 0, so the ids of
   each session run 1, 2, 3, ... without gap or repeat. *)
C29_LogIdsConsecutive ==
    /\ [](/\ Len(app.pose_log) = app.image_counter
          /\ \A i \in 1..Len(app.pose_log) : app.pose_log[i].id = i)
    /\ [][StartStep => app'.pose_log = <<>> /\ app'.image_counter = 0]_vars
    /\ [][app'.pose_log # app.pose_log =>
            \/ StartStep
            \/ /\ app.tracking_active
               /\ Len(app'.pose_log) = Len(app.pose_log) + 1
               /\ SubSeq(app'.pose_log, 1, Len(app.pose_log)) = app.pose_log]_vars

\* The running session has logged one result, under id 1, and that result is
\* the second packet received: the ids count the session's entries.
C29_Witness ==
    /\ app.tracking_active
    /\ Len(app.pose_log) = 1
    /\ app.pose_log[1].id = 1
    /\ app.pose_log[1].pose = 2

(* C30: while tracking is active, a non-empty current_box_points or
   current_pose was stored by a result delivered since tracking was last
   started: every start empties both, and they are written only by
   update_box_points with the points and the pose of the result delivered. *)
C30_NoOverlayFromEarlierRun ==
    /\ []((app.tracking_active
             /\ (app.current_box_points # None \/ app.current_pose # None))
           => arrivals # <<>>)
    /\ [][StartStep =>
            /\ app'.current_box_points = None
            /\ app'.current_pose = None
            /\ arrivals' = <<>>]_vars
    /\ [][( \/ app'.current_box_points \notin {None, app.current_box_points}
            \/ app'.current_pose \notin {None, app.current_pose} ) =>
            /\ ResultArrival
            /\ Len(arrivals') = Len(arrivals) + 1
            /\ app'.current_box_points = Some(Head(result_queue).points)
            /\ app'.current_pose = Some(Head(result_queue).pose)]_vars

\* Tracking is active and the overlay shows the second packet, the only result
\* delivered since the start.
C30_Witness ==
    /\ app.tracking_active
    /\ app.current_box_points = Some(2)
    /\ app.current_pose = Some(2)
    /\ Len(arrivals) = 1

(* C31: GET_TEXTURES is sent only while texture_cache is unset; an OK reply,
   with an empty list too, arrives with the cache still unset and sets it to
   the list received, and nothing else ever writes the cache; a timeout or a
   reply whose status is not OK leaves it unset; and an opening of the texture
   dialog that finds the cache unset sends GET_TEXTURES. *)
C31_TextureListFetchedOnce ==
    /\ [][cmd_wire' = Append(cmd_wire, "GET_TEXTURES") => app.texture_cache = None]_vars
    /\ [][\A resp \in TextureListOutcomes :
            TexListRecvOf(resp) =>
               /\ app.texture_cache = None
               /\ app'.texture_cache =
                     IF resp.kind = "reply" /\ resp.status = "OK"
                     THEN Some(resp.textures) ELSE None]_vars
    /\ [][app'.texture_cache # app.texture_cache =>
            /\ app.texture_cache = None
            /\ Head(cmd_wire) = "GET_TEXTURES"
            /\ Top(ui_stack) = "tex_list_recv"]_vars
    /\ [][(TexPump1Done /\ app.texture_cache = None) =>
            cmd_wire' = Append(cmd_wire, "GET_TEXTURES")]_vars

====
